---- MODULE Spec2Model ----
(***************************************************************************)
(* Model of dmvr/builders.py: the ordered-step processor builder           *)
(* (_Builder: add_fn, reset, remove_fn, replace_fn, get_summary, build and *)
(* the process_fn closure that build returns), the two parser builders     *)
(* (parse_feature, build, _parse_fn) and the FilterBuilder (add_filter_fn, *)
(* build and the filter_fn closure).                                       *)
(*                                                                         *)
(* Python objects are modelled by their contents.  Where the identity of   *)
(* an object matters (a list or a dict reachable through two references)   *)
(* the record that holds the second reference carries a flag saying        *)
(* whether it is the same object as the first.                             *)
(***************************************************************************)
EXTENDS Integers, Sequences, FiniteSets, TLC

VARIABLES
  _fns_list,  \* contents of the list object bound to self._fns_list
  _fn_idx,    \* self._fn_idx
  call,       \* the most recent builder call: its name and arguments
  len_before, \* len(self._fns_list) when that call began
  raised,     \* what that call raised: NoError, or the message of the ValueError
  built,      \* the process_fn closures returned by build(), oldest first
  runs,       \* the invocations of process_fn closures, one per caller slot
  parser_class, \* the class of the parser builder that was constructed
  _features,    \* contents of the parser builder's self._features
  _name_dict,   \* contents of the parser builder's self._name_dict
  parse_call,   \* the most recent call of the parser builder or of one of
                \* its parse functions: name and arguments
  parse_raised, \* what that call raised: NoError, or the ValueError's message
  parse_fns,    \* the objects returned by the parser's build(), oldest first
  parse_result, \* the most recent call of one of them: argument and result
  _filter_fns,  \* contents of the FilterBuilder's self._filter_fns
  filter_call,  \* the most recent FilterBuilder call: name and arguments
  filters,      \* the filter_fn closures returned by build(), oldest first
  filtered      \* the most recent call of one of them: argument and result

parser_vars ==
  <<parser_class, _features, _name_dict, parse_call, parse_raised, parse_fns,
    parse_result>>

filter_vars == <<_filter_fns, filter_call, filters, filtered>>

vars ==
  <<_fns_list, _fn_idx, call, len_before, raised, built, runs, parser_vars,
    filter_vars>>

(***************************************************************************)
(* Bounds of the model.                                                    *)
(***************************************************************************)
MaxFns == 3     \* longest registry the builder is driven to
MaxIdx == 2     \* number of calls that draw a synthetic name
MaxBuilt == 2   \* number of build() calls
MaxRuns == 2    \* number of caller slots that invoke closures
ValMod == 16    \* field values are the integers 0 .. ValMod - 1

(***************************************************************************)
(* Python values.                                                          *)
(***************************************************************************)
\* Python's None, for the Optional[str] arguments.  It is a token that is no
\* member of the sets of names the callers below draw from.
None == "<None>"

\* bool(s) of an Optional[str]: None and the empty string are falsy.
Truthy(s) == s # None /\ s # ""

\* The empty dict.
EmptyDict == [k \in {} |-> 0]

\* d[k] = v on a dict.
DictSet(d, k, v) == [x \in DOMAIN d \cup {k} |-> IF x = k THEN v ELSE d[x]]

\* del d[k] on a dict that has k.
DictDel(d, k) == [x \in DOMAIN d \ {k} |-> d[x]]

\* list.insert(i, x) for a 0-based i in 0 .. len(list); pos is i + 1.
ListInsert(list, pos, x) ==
  SubSeq(list, 1, pos - 1) \o <<x>> \o SubSeq(list, pos, Len(list))

(***************************************************************************)
(* The error messages of the builder's raise statements.                   *)
(***************************************************************************)
NoError == "none"
NotUnique == "fn_name is not unique"
AddBeforeMissing == "add_before_idx does not exist"
FnNameMissing == "fn_name does not exist"

(***************************************************************************)
(* The callers' step functions.  The builder never looks inside a step     *)
(* function; the model gives it two functions of each of the four call     *)
(* shapes (Processor, FeatureProcessor, StatefulProcessor,                 *)
(* StatefulFeatureProcessor), named by strings.                            *)
(***************************************************************************)
FeatureProcessors == {"double", "add_one"}
StatefulFeatureProcessors == {"stash", "fetch"}
Processors == {"rename", "copy"}
StatefulProcessors == {"mark", "publish"}

\* The functions whose signature fits a step with the given feature_name and
\* stateful flag: the shape process_fn calls it with.
FnsFor(feature_name, stateful) ==
  IF Truthy(feature_name)
    THEN (IF stateful THEN StatefulFeatureProcessors ELSE FeatureProcessors)
    ELSE (IF stateful THEN StatefulProcessors ELSE Processors)

(***************************************************************************)
(* _FunctionDescription and the helpers of add_fn, remove_fn, replace_fn.  *)
(***************************************************************************)
_FunctionDescription(fn_name, fn, feature_name, stateful) ==
  [fn_name |-> fn_name, fn |-> fn, feature_name |-> feature_name,
   stateful |-> stateful]

\* f'fn_{self._fn_idx}'
SyntheticName(idx) == "fn_" \o ToString(idx)

\* [fd.fn_name for fd in self._fns_list]
FnNames(list) == [i \in DOMAIN list |-> list[i].fn_name]

\* A uniqueness test that looks at the first step of the list only.
NameInList_first_only(fn_name, list) ==
  list # <<>> /\ list[1].fn_name = fn_name

\* A uniqueness test that looks at the most recently appended step only.
NameInList_last_only(fn_name, list) ==
  list # <<>> /\ list[Len(list)].fn_name = fn_name

\* fn_name in [fd.fn_name for fd in self._fns_list]
NameInList(fn_name, list) ==
  \E i \in DOMAIN FnNames(list) : FnNames(list)[i] = fn_name

\* [i for i, fd in enumerate(list) if fd.fn_name == name], as 1-based
\* positions in increasing order.
IndicesOf(name, list) ==
  SelectSeq([i \in DOMAIN list |-> i], LAMBDA i : list[i].fn_name = name)

\* A removal by position, del list[find(fn_name)], whose find() answers -1
\* for an absent name: the last step goes.
WithoutName_by_position(fn_name, list) ==
  IF \E i \in DOMAIN list : list[i].fn_name = fn_name
    THEN SelectSeq(list, LAMBDA fd : fd.fn_name # fn_name)
    ELSE SubSeq(list, 1, Len(list) - 1)

\* [fd for fd in self._fns_list if fd.fn_name != fn_name]
WithoutName(fn_name, list) ==
  SelectSeq(list, LAMBDA fd : fd.fn_name # fn_name)

\* A replacement built from the new function alone, on the whole dictionary
\* and stateless as add_fn's defaults are.
ReplacedFd_defaults(fd, fn) == _FunctionDescription(fd.fn_name, fn, None, FALSE)

\* _FunctionDescription(fd.fn_name, fn, fd.feature_name, fd.stateful)
ReplacedFd(fd, fn) ==
  _FunctionDescription(fd.fn_name, fn, fd.feature_name, fd.stateful)

\* The closures that hold the very list object bound to self._fns_list see
\* a change made to that object in place ...
SeenInPlace(new_list) ==
  [i \in DOMAIN built |->
     IF built[i].same_object THEN [built[i] EXCEPT !.fns_list = new_list]
     ELSE built[i]]

\* ... and keep the old object when self._fns_list is bound to a new list.
AfterRebind == [i \in DOMAIN built |-> [built[i] EXCEPT !.same_object = FALSE]]

\* The record of a builder call; arguments a method does not have are None.
Call(op, fn, feature_name, fn_name, stateful, add_before_fn_name) ==
  [op |-> op, fn |-> fn, feature_name |-> feature_name, fn_name |-> fn_name,
   stateful |-> stateful, add_before_fn_name |-> add_before_fn_name]

(***************************************************************************)
(* _Builder.__init__                                                       *)
(***************************************************************************)
Idle ==
  [pc |-> "idle", fn |-> 0, i |-> 0, features_dict |-> EmptyDict,
   output |-> EmptyDict, same_object |-> FALSE, state |-> EmptyDict,
   error |-> NoError]

BuilderInit ==
  /\ _fns_list = <<>>
  /\ _fn_idx = 0
  /\ call = Call("__init__", None, None, None, FALSE, None)
  /\ len_before = 0
  /\ raised = NoError
  /\ built = <<>>
  /\ runs = [c \in 1 .. MaxRuns |-> Idle]

(***************************************************************************)
(* ExampleParserBuilder.__init__ and SequenceExampleParserBuilder.__init__ *)
(***************************************************************************)
ExampleParserBuilder == "ExampleParserBuilder"
SequenceExampleParserBuilder == "SequenceExampleParserBuilder"

\* The record of a parser builder call; arguments a method does not have
\* are None (is_context: FALSE).
ParseCall(op, feature_name, feature_type, output_name, is_context) ==
  [op |-> op, feature_name |-> feature_name, feature_type |-> feature_type,
   output_name |-> output_name, is_context |-> is_context]

\* No parse function has been called yet.
NotParsed == [fn |-> 0, raw_data |-> 0, output |-> EmptyDict]

ParserInit(cls) ==
  /\ parser_class = cls
  /\ _features = EmptyDict
  /\ _name_dict = EmptyDict
  /\ parse_call = ParseCall("__init__", None, None, None, FALSE)
  /\ parse_raised = NoError
  /\ parse_fns = <<>>
  /\ parse_result = NotParsed

(***************************************************************************)
(* Phase and FilterBuilder.__init__                                        *)
(***************************************************************************)
Phase == {"READ", "PARSE", "SAMPLE", "DECODE", "PREPROCESS", "POSTPROCESS"}

\* The record of a FilterBuilder call.
FilterCall(op, filter_fn, after_phase) ==
  [op |-> op, filter_fn |-> filter_fn, after_phase |-> after_phase]

\* No filter function has been called yet.
NotFiltered == [fn |-> 0, features_dict |-> EmptyDict, keep |-> TRUE]

FilterInit ==
  /\ _filter_fns = [phase \in Phase |-> <<>>]
  /\ filter_call = FilterCall("__init__", None, None)
  /\ filters = <<>>
  /\ filtered = NotFiltered

(***************************************************************************)
(* The objects a program constructs: one processor builder, one parser     *)
(* builder and one FilterBuilder.                                          *)
(***************************************************************************)
Init == BuilderInit /\ ParserInit(ExampleParserBuilder) /\ FilterInit

(***************************************************************************)
(* _Builder.add_fn                                                         *)
(***************************************************************************)
add_fn(fn, feature_name, fn_name, stateful, add_before_fn_name) ==
  LET synthetic == fn_name = None
      name == IF synthetic THEN SyntheticName(_fn_idx) ELSE fn_name
      new_fd == _FunctionDescription(name, fn, feature_name, stateful)
      add_before_idx == IndicesOf(add_before_fn_name, _fns_list)
      error == IF NameInList(name, _fns_list) THEN NotUnique
               ELSE IF Truthy(add_before_fn_name) /\ add_before_idx = <<>>
                 THEN AddBeforeMissing
               ELSE NoError
      new_list == IF Truthy(add_before_fn_name)
                    THEN ListInsert(_fns_list, add_before_idx[1], new_fd)
                    ELSE Append(_fns_list, new_fd)
  IN /\ synthetic => _fn_idx < MaxIdx
     /\ error = NoError => Len(_fns_list) < MaxFns
     /\ call' = Call("add_fn", fn, feature_name, fn_name, stateful,
                     add_before_fn_name)
     /\ len_before' = Len(_fns_list)
     /\ _fn_idx' = IF synthetic THEN _fn_idx + 1 ELSE _fn_idx
     /\ raised' = error
     /\ IF error = NoError
          THEN /\ _fns_list' = new_list
               /\ built' = SeenInPlace(new_list)
          ELSE UNCHANGED <<_fns_list, built>>
     /\ UNCHANGED <<runs, parser_vars, filter_vars>>

(***************************************************************************)
(* _Builder.reset                                                          *)
(***************************************************************************)
reset ==
  /\ call' = Call("reset", None, None, None, FALSE, None)
  /\ len_before' = Len(_fns_list)
  /\ raised' = NoError
  /\ _fns_list' = <<>>
  /\ built' = AfterRebind
  /\ UNCHANGED <<_fn_idx, runs, parser_vars, filter_vars>>

(***************************************************************************)
(* _Builder.remove_fn                                                      *)
(***************************************************************************)
remove_fn(fn_name) ==
  /\ call' = Call("remove_fn", None, None, fn_name, FALSE, None)
  /\ len_before' = Len(_fns_list)
  /\ raised' = NoError
  /\ _fns_list' = WithoutName(fn_name, _fns_list)
  /\ built' = AfterRebind
  /\ UNCHANGED <<_fn_idx, runs, parser_vars, filter_vars>>

(***************************************************************************)
(* _Builder.replace_fn                                                     *)
(***************************************************************************)
\* A replace_fn that registers the function under the name when no step has
\* it, instead of raising.
replace_fn_or_add(fn_name, fn) ==
  LET idx == IndicesOf(fn_name, _fns_list)
      new_list ==
        IF idx = <<>>
          THEN Append(_fns_list, _FunctionDescription(fn_name, fn, None, FALSE))
          ELSE [_fns_list EXCEPT ![idx[1]] = ReplacedFd(_fns_list[idx[1]], fn)]
  IN /\ idx = <<>> => Len(_fns_list) < MaxFns
     /\ call' = Call("replace_fn", fn, None, fn_name, FALSE, None)
     /\ len_before' = Len(_fns_list)
     /\ raised' = NoError
     /\ _fns_list' = new_list
     /\ built' = SeenInPlace(new_list)
     /\ UNCHANGED <<_fn_idx, runs, parser_vars, filter_vars>>

replace_fn(fn_name, fn) ==
  LET idx == IndicesOf(fn_name, _fns_list)
      fd == _fns_list[idx[1]]
      new_fd == ReplacedFd(fd, fn)
      new_list == [_fns_list EXCEPT ![idx[1]] = new_fd]
  IN /\ call' = Call("replace_fn", fn, None, fn_name, FALSE, None)
     /\ len_before' = Len(_fns_list)
     /\ IF idx = <<>>
          THEN /\ raised' = FnNameMissing
               /\ UNCHANGED <<_fns_list, built>>
          ELSE /\ raised' = NoError
               /\ _fns_list' = new_list
               /\ built' = SeenInPlace(new_list)
     /\ UNCHANGED <<_fn_idx, runs, parser_vars, filter_vars>>

(***************************************************************************)
(* _Builder.get_summary: a new list with the descriptors of the registry.  *)
(***************************************************************************)
get_summary == [i \in DOMAIN _fns_list |-> _fns_list[i]]

(***************************************************************************)
(* What the callers' step functions do.  A call gives back: raises, whether *)
(* the function raised (a KeyError of its own); ret, the value it returns;  *)
(* ret_is_arg, whether a returned dictionary is the object it was given;    *)
(* arg, the contents of the dictionary it was given after the call; state,  *)
(* the contents of the state dictionary after the call.                     *)
(***************************************************************************)
Returned(ret, ret_is_arg, arg, state) ==
  [raises |-> FALSE, ret |-> ret, ret_is_arg |-> ret_is_arg, arg |-> arg,
   state |-> state]

Raised(arg, state) ==
  [raises |-> TRUE, ret |-> arg, ret_is_arg |-> FALSE, arg |-> arg,
   state |-> state]

\* fn(arg) for the stateless and fn(arg, state) for the stateful functions:
\*   double(x)         = 2 * x
\*   add_one(x)        = x + 1
\*   stash(x, state)   : state['k'] = x; return x
\*   fetch(x, state)   : return state['k']
\*   rename(d)         : v = d['n']; del d['n']; d['out'] = v; return d
\*   copy(d)           : return dict(d)
\*   mark(d, state)    : state['k'] = 5; return d
\*   publish(d, state) : d['out'] = state['k']; return d
CallFn(fn, arg, state) ==
  CASE fn = "double" -> Returned((2 * arg) % ValMod, FALSE, arg, state)
    [] fn = "add_one" -> Returned((arg + 1) % ValMod, FALSE, arg, state)
    [] fn = "stash" -> Returned(arg, FALSE, arg, DictSet(state, "k", arg))
    [] fn = "fetch" ->
         IF "k" \in DOMAIN state THEN Returned(state["k"], FALSE, arg, state)
         ELSE Raised(arg, state)
    [] fn = "rename" ->
         IF "n" \in DOMAIN arg
           THEN LET d == DictSet(DictDel(arg, "n"), "out", arg["n"])
                IN Returned(d, TRUE, d, state)
           ELSE Raised(arg, state)
    [] fn = "copy" -> Returned(arg, FALSE, arg, state)
    [] fn = "mark" -> Returned(arg, TRUE, arg, DictSet(state, "k", 5))
    [] fn = "publish" ->
         IF "k" \in DOMAIN state
           THEN LET d == DictSet(arg, "out", state["k"])
                IN Returned(d, TRUE, d, state)
           ELSE Raised(arg, state)

(***************************************************************************)
(* _Builder.build                                                          *)
(***************************************************************************)
\* A closure that keeps the builder's list object itself.
Tuple_same_list(list) == [fns_list |-> list, same_object |-> TRUE]

\* fns_list = tuple(self._fns_list): a new, immutable sequence with the
\* descriptors the list holds now.
Tuple(list) == [fns_list |-> list, same_object |-> FALSE]

build ==
  /\ Len(built) < MaxBuilt
  /\ call' = Call("build", None, None, None, FALSE, None)
  /\ len_before' = Len(_fns_list)
  /\ raised' = NoError
  /\ built' = Append(built, Tuple(_fns_list))
  /\ UNCHANGED <<_fns_list, _fn_idx, runs, parser_vars, filter_vars>>

(***************************************************************************)
(* process_fn, the closure build returns: one action for its entry, one    *)
(* for each turn of its loop, one for its return.  c is the caller's slot, *)
(* f the closure called (its position in built).                           *)
(***************************************************************************)
\* An assignment instead of a copy: output is the caller's own dict.
ShallowCopy_same_dict(features_dict) ==
  [dict |-> features_dict, same_object |-> TRUE]

\* output = copy.copy(features_dict): a new dict with the same items.
ShallowCopy(features_dict) == [dict |-> features_dict, same_object |-> FALSE]

\* A state dictionary made once per closure: a call finds in it what
\* another call of the closure that is under way has written.
NewState_shared(c, f) ==
  LET others == {d \in DOMAIN runs \ {c} :
                   runs[d].fn = f /\ runs[d].pc = "loop"}
  IN IF others = {} THEN EmptyDict
     ELSE runs[CHOOSE d \in others : TRUE].state

\* A state dictionary that outlives the call: the one the slot's last call
\* of the same closure left.
NewState_kept(c, f) == IF runs[c].fn = f THEN runs[c].state ELSE EmptyDict

\* state: Dict[str, Any] = {}
NewState(c, f) == EmptyDict

process_fn_call(c, f, features_dict) ==
  /\ runs[c].pc # "loop"
  /\ f \in DOMAIN built
  /\ runs' = [runs EXCEPT ![c] =
       [pc |-> "loop", fn |-> f, i |-> 1, features_dict |-> features_dict,
        output |-> ShallowCopy(features_dict).dict,
        same_object |-> ShallowCopy(features_dict).same_object,
        state |-> NewState(c, f), error |-> NoError]]
  /\ UNCHANGED <<_fns_list, _fn_idx, call, len_before, raised, built,
                  parser_vars, filter_vars>>

\* A loop that walks the tuple from its end.
LoopFd_reversed(fns_list, i) == fns_list[Len(fns_list) + 1 - i]

\* for fd in fns_list: the descriptor of the i-th turn.
LoopFd(fns_list, i) == fns_list[i]

\* The two errors a turn of the loop can end the call with.
KeyErrorInLoop == "KeyError at output[fd.feature_name]"
ErrorInFn == "error raised by fd.fn"

\* A loop that passes over a step whose feature the dictionary lacks.
OnMissingKey_skip(r) == [r EXCEPT !.i = r.i + 1]

\* output[fd.feature_name] for a key that output lacks: the KeyError ends
\* the call.
OnMissingKey(r) == [r EXCEPT !.pc = "raised", !.error = KeyErrorInLoop]

process_fn_step(c) ==
  LET r == runs[c]
      fns_list == built[r.fn].fns_list
      fd == LoopFd(fns_list, r.i)
      on_feature == CallFn(fd.fn, r.output[fd.feature_name], r.state)
      on_dict == CallFn(fd.fn, r.output, r.state)
      raise(error) == [r EXCEPT !.pc = "raised", !.error = error]
  IN /\ r.pc = "loop"
     /\ r.i <= Len(fns_list)
     /\ runs' = [runs EXCEPT ![c] =
          IF Truthy(fd.feature_name)
            THEN IF fd.feature_name \notin DOMAIN r.output
                   THEN OnMissingKey(r)
                 ELSE IF on_feature.raises THEN raise(ErrorInFn)
                 ELSE LET output == DictSet(r.output, fd.feature_name,
                                            on_feature.ret)
                      IN [r EXCEPT
                            !.i = r.i + 1,
                            !.output = output,
                            !.features_dict =
                               IF r.same_object THEN output ELSE @,
                            !.state = IF fd.stateful THEN on_feature.state
                                      ELSE @]
            ELSE IF on_dict.raises THEN raise(ErrorInFn)
                 ELSE [r EXCEPT
                         !.i = r.i + 1,
                         !.output = on_dict.ret,
                         !.features_dict =
                            IF r.same_object THEN on_dict.arg ELSE @,
                         !.same_object = r.same_object /\ on_dict.ret_is_arg,
                         !.state = IF fd.stateful THEN on_dict.state ELSE @]]
     /\ UNCHANGED <<_fns_list, _fn_idx, call, len_before, raised, built,
                  parser_vars, filter_vars>>

process_fn_return(c) ==
  /\ runs[c].pc = "loop"
  /\ runs[c].i > Len(built[runs[c].fn].fns_list)
  /\ runs' = [runs EXCEPT ![c].pc = "returned"]
  /\ UNCHANGED <<_fns_list, _fn_idx, call, len_before, raised, built,
                  parser_vars, filter_vars>>

(***************************************************************************)
(* The callers of the builder-only specification.                          *)
(***************************************************************************)
\* The names a caller passes as fn_name; "fn_0" has the synthetic form.
GivenNames == {"", "A", "fn_0"}

\* Every name a step can have, and so every name worth passing as
\* add_before_fn_name, to remove_fn and to replace_fn.
StepNames == GivenNames \cup {SyntheticName(k) : k \in 0 .. MaxIdx - 1}

\* The add_fn calls of the builder-only callers, without add_before_fn_name:
\* steps of all four shapes, under the three given names and unnamed.
BuilderSteps ==
  {_FunctionDescription("", "stash", "n", TRUE),
   _FunctionDescription("A", "rename", None, FALSE),
   _FunctionDescription("fn_0", "double", "n", FALSE),
   _FunctionDescription(None, "mark", "", TRUE)}

\* replace_fn is given a function of the shape of the step it replaces.
ReplacementsFor(fn_name) ==
  IF IndicesOf(fn_name, _fns_list) = <<>> THEN {"double"}
  ELSE LET fd == _fns_list[IndicesOf(fn_name, _fns_list)[1]]
       IN FnsFor(fd.feature_name, fd.stateful)

Next ==
  \/ \E step \in BuilderSteps, add_before_fn_name \in StepNames \cup {None} :
       add_fn(step.fn, step.feature_name, step.fn_name, step.stateful,
              add_before_fn_name)
  \/ reset
  \/ \E fn_name \in StepNames : remove_fn(fn_name)
  \/ \E fn_name \in StepNames : \E fn \in ReplacementsFor(fn_name) :
       replace_fn(fn_name, fn)

Spec == Init /\ [][Next]_vars

(***************************************************************************)
(* The callers of the snapshot specification: a builder that is changed    *)
(* by every method after, and between, its build() calls.                  *)
(***************************************************************************)
SnapSteps ==
  {_FunctionDescription("A", "double", "n", FALSE),
   _FunctionDescription("B", "rename", None, FALSE)}

SnapNames == {"A", "B"}

NextSnap ==
  \/ \E step \in SnapSteps, add_before_fn_name \in {None, "A"} :
       add_fn(step.fn, step.feature_name, step.fn_name, step.stateful,
              add_before_fn_name)
  \/ reset
  \/ \E fn_name \in SnapNames : remove_fn(fn_name)
  \/ \E fn_name \in SnapNames : \E fn \in ReplacementsFor(fn_name) :
       replace_fn(fn_name, fn)
  \/ build

SpecSnap == Init /\ [][NextSnap]_vars

(***************************************************************************)
(* The callers of the invocation specification: a builder is given steps   *)
(* and built; it may be reset, given the step that reads the state, and    *)
(* built again; one caller invokes the closures, one call after the other. *)
(***************************************************************************)
\* The features dictionaries the callers pass.
FeatureKeys == {"n", "out"}
Inputs == {EmptyDict, [n |-> 3], [out |-> 1], [n |-> 3, out |-> 1]}

\* One step for each step function, named after it.
RunSteps ==
  {_FunctionDescription("double", "double", "n", FALSE),
   _FunctionDescription("add_one", "add_one", "n", FALSE),
   _FunctionDescription("stash", "stash", "n", TRUE),
   _FunctionDescription("rename", "rename", None, FALSE),
   _FunctionDescription("mark", "mark", "", TRUE),
   _FunctionDescription("publish", "publish", None, TRUE)}

NextRun ==
  \/ \E step \in RunSteps :
       /\ built = <<>> \/ (_fns_list = <<>> /\ step.fn = "publish")
       /\ add_fn(step.fn, step.feature_name, step.fn_name, step.stateful, None)
  \/ reset
  \/ build
  \/ \E f \in DOMAIN built, features_dict \in Inputs :
       process_fn_call(1, f, features_dict)
  \/ process_fn_step(1)
  \/ process_fn_return(1)

SpecRun == Init /\ [][NextRun]_vars

(***************************************************************************)
(* The callers of the concurrency specification: the builder is set up and *)
(* built once, and every caller slot calls the closure on a dictionary of  *)
(* its own; the turns of the calls' loops interleave in any order.         *)
(***************************************************************************)
ConcSteps ==
  {_FunctionDescription("stash", "stash", "n", TRUE),
   _FunctionDescription("double", "double", "n", FALSE),
   _FunctionDescription("mark", "mark", "", TRUE),
   _FunctionDescription("publish", "publish", None, TRUE)}

ConcInputs == {[n |-> 1], [n |-> 3]}

NextConc ==
  \/ \E step \in ConcSteps :
       /\ built = <<>>
       /\ add_fn(step.fn, step.feature_name, step.fn_name, step.stateful, None)
  \/ /\ built = <<>>
     /\ build
  \/ \E c \in DOMAIN runs, f \in DOMAIN built, features_dict \in ConcInputs :
       process_fn_call(c, f, features_dict)
  \/ \E c \in DOMAIN runs : process_fn_step(c)
  \/ \E c \in DOMAIN runs : process_fn_return(c)

SpecConc == Init /\ [][NextConc]_vars

(***************************************************************************)
(* The parser builders.  parse_feature is the same code in the two         *)
(* classes but for the key of self._features and self._name_dict: the      *)
(* feature name in ExampleParserBuilder, the pair (feature_name,           *)
(* is_context) in SequenceExampleParserBuilder.                            *)
(***************************************************************************)
\* The messages of parse_feature's raise statements.
OutputNameNotUnique == "Given output_name is not unique."
DifferentFeatureType == "Different feature_type given for the same feature."

\* feature_key = (feature_name, is_context), or feature_name itself.
FeatureKey(feature_name, is_context) ==
  IF parser_class = SequenceExampleParserBuilder
    THEN <<feature_name, is_context>>
    ELSE feature_name

\* A validation that looks at the latest output name of every feature only.
OutputNameTaken_last_only(output_name) ==
  \E k \in DOMAIN _name_dict :
    _name_dict[k][Len(_name_dict[k])] = output_name

\* A validation that looks at the first output name of every feature only.
OutputNameTaken_first_only(output_name) ==
  \E k \in DOMAIN _name_dict : _name_dict[k][1] = output_name

\* for name_list in self._name_dict.values(): if output_name in name_list
OutputNameTaken(output_name) ==
  \E k \in DOMAIN _name_dict :
    \E i \in DOMAIN _name_dict[k] : _name_dict[k][i] = output_name

\* A builder that takes the latest feature_type for the right one.
TypeDiffers_never(feature_key, feature_type) == FALSE

\* self._features[feature_key] != feature_type
TypeDiffers(feature_key, feature_type) == _features[feature_key] # feature_type

parse_feature(feature_name, feature_type, output_name, is_context) ==
  LET resolved == IF Truthy(output_name) THEN output_name ELSE feature_name
      feature_key == FeatureKey(feature_name, is_context)
      new_key == feature_key \notin DOMAIN _features
      error ==
        IF OutputNameTaken(resolved) THEN OutputNameNotUnique
        ELSE IF ~new_key /\ TypeDiffers(feature_key, feature_type)
          THEN DifferentFeatureType
        ELSE NoError
      name_list == IF feature_key \in DOMAIN _name_dict
                     THEN _name_dict[feature_key] ELSE <<>>
  IN /\ parse_call' = ParseCall("parse_feature", feature_name, feature_type,
                                output_name, is_context)
     /\ parse_raised' = error
     /\ IF error = NoError
          THEN /\ _features' = IF new_key
                                 THEN DictSet(_features, feature_key, feature_type)
                                 ELSE _features
               /\ _name_dict' = DictSet(_name_dict, feature_key,
                                        Append(name_list, resolved))
          ELSE UNCHANGED <<_features, _name_dict>>
     /\ UNCHANGED <<parser_class, parse_fns, parse_result>>
     /\ UNCHANGED <<_fns_list, _fn_idx, call, len_before, raised, built, runs,
                    filter_vars>>

\* return self._parse_fn: the method bound to the builder, which holds the
\* builder and nothing of its schema.
BoundMethod == "self._parse_fn"

parser_build ==
  /\ Len(parse_fns) < MaxBuilt
  /\ parse_call' = ParseCall("build", None, None, None, FALSE)
  /\ parse_raised' = NoError
  /\ parse_fns' = Append(parse_fns, BoundMethod)
  /\ UNCHANGED <<parser_class, _features, _name_dict, parse_result>>
  /\ UNCHANGED <<_fns_list, _fn_idx, call, len_before, raised, built, runs,
                 filter_vars>>

(***************************************************************************)
(* _parse_fn, the method build returns.  raw_data is modelled by the       *)
(* record it serializes: a tf.train.Example has features, a                *)
(* tf.train.SequenceExample has context and feature_lists.  TensorFlow's   *)
(* parsers give, for every requested feature, a tensor made from the       *)
(* feature's value in the record according to the requested type.          *)
(***************************************************************************)
Tensor(feature_type, value) == [feature_type |-> feature_type, value |-> value]

\* tf.io.parse_single_example(serialized=raw_data, features=features)
parse_single_example(raw_data, features) ==
  [k \in DOMAIN features |-> Tensor(features[k], raw_data.features[k])]

\* tf.io.parse_single_sequence_example(raw_data, context_features,
\* sequence_features): the pair (parsed_context, parsed_sequence).
parse_single_sequence_example(raw_data, context_features, sequence_features) ==
  [parsed_context |->
     [n \in DOMAIN context_features |->
        Tensor(context_features[n], raw_data.context[n])],
   parsed_sequence |->
     [n \in DOMAIN sequence_features |->
        Tensor(sequence_features[n], raw_data.feature_lists[n])]]

\* A renaming that gives a parsed feature its latest output name only.
OutputNames_last_only(feature_key) ==
  <<_name_dict[feature_key][Len(_name_dict[feature_key])]>>

\* output_names = self._name_dict[k]
OutputNames(feature_key) == _name_dict[feature_key]

\* for k, f in parsed.items(): for output_name in output_names:
\*   output[output_name] = tf.identity(f)
\* The names of parsed's features are distinct by parse_feature's check; if
\* they were not, one of the features with the name would be bound to it.
Renamed(parsed, context) ==
  LET names(k) ==
        {OutputNames(FeatureKey(k, context))[i] :
           i \in DOMAIN OutputNames(FeatureKey(k, context))}
  IN [output_name \in UNION {names(k) : k \in DOMAIN parsed} |->
        parsed[CHOOSE k \in DOMAIN parsed : output_name \in names(k)]]

\* The second loop over a group writes into the output of the first.
Updated(output, later) ==
  [k \in DOMAIN output \cup DOMAIN later |->
     IF k \in DOMAIN later THEN later[k] ELSE output[k]]

_parse_fn(raw_data) ==
  IF parser_class = SequenceExampleParserBuilder
    THEN LET group(c) == {k \in DOMAIN _features : k[2] = c}
             context_features ==
               [n \in {k[1] : k \in group(TRUE)} |-> _features[<<n, TRUE>>]]
             sequence_features ==
               [n \in {k[1] : k \in group(FALSE)} |-> _features[<<n, FALSE>>]]
             parsed == parse_single_sequence_example(
                         raw_data, context_features, sequence_features)
         IN Updated(Renamed(parsed.parsed_context, TRUE),
                    Renamed(parsed.parsed_sequence, FALSE))
    ELSE Renamed(parse_single_example(raw_data, _features), FALSE)

\* A call parse_fns[f](raw_data) of a function that build returned.
parse_fn_call(f, raw_data) ==
  /\ f \in DOMAIN parse_fns
  /\ parse_call' = ParseCall("_parse_fn", None, None, None, FALSE)
  /\ parse_raised' = NoError
  /\ parse_result' =
       [fn |-> f, raw_data |-> raw_data, output |-> _parse_fn(raw_data)]
  /\ UNCHANGED <<parser_class, _features, _name_dict, parse_fns>>
  /\ UNCHANGED <<_fns_list, _fn_idx, call, len_before, raised, built, runs,
                 filter_vars>>

(***************************************************************************)
(* The callers of the parser specification: a builder of either class,     *)
(* features 'a' and 'b' of two types, output names given, empty or not     *)
(* given, one of them the name of a feature.                               *)
(***************************************************************************)
FeatureNames == {"a", "b"}
FeatureTypes == {"FixedLenFeature", "VarLenFeature"}
OutputNameArgs == {None, "", "x", "a"}

\* The records: every feature has another value in every place.
RawExamples == {[features |-> [a |-> 1, b |-> 2]]}
RawSequenceExamples ==
  {[context |-> [a |-> 1, b |-> 2], feature_lists |-> [a |-> 3, b |-> 4]]}
RawData ==
  IF parser_class = SequenceExampleParserBuilder
    THEN RawSequenceExamples ELSE RawExamples

\* is_context is an argument of SequenceExampleParserBuilder only.
IsContextArgs ==
  IF parser_class = SequenceExampleParserBuilder THEN BOOLEAN ELSE {FALSE}

InitParse ==
  /\ BuilderInit
  /\ \E cls \in {ExampleParserBuilder, SequenceExampleParserBuilder} :
       ParserInit(cls)
  /\ FilterInit

\* The program configures and builds in any order, and then parses.
NextParse ==
  \/ /\ parse_result = NotParsed
     /\ \E feature_name \in FeatureNames, feature_type \in FeatureTypes,
           output_name \in OutputNameArgs, is_context \in IsContextArgs :
          parse_feature(feature_name, feature_type, output_name, is_context)
  \/ /\ parse_result = NotParsed
     /\ parser_build
  \/ \E f \in DOMAIN parse_fns, raw_data \in RawData :
       parse_fn_call(f, raw_data)

SpecParse == InitParse /\ [][NextParse]_vars

(***************************************************************************)
(* The filter functions a caller gives to add_filter_fn: the two of the    *)
(* FilterBuilder docstring and two constant ones.  A string tensor is      *)
(* modelled by the sequence of its characters, an image tensor by its      *)
(* shape.                                                                  *)
(***************************************************************************)
KEY_FEATURE_NAME == "key"
IMAGE_FEATURE_NAME == "image"

\* tf.strings.substr(input, pos, len) for a 0-based pos within the string.
substr(input, pos, len) ==
  SubSeq(input, pos + 1, IF pos + len <= Len(input) THEN pos + len ELSE Len(input))

\* filter_on_key: tf.not_equal(tf.strings.substr(key, 0, 7), 'invalid')
filter_on_key(features_dict) ==
  substr(features_dict[KEY_FEATURE_NAME], 0, 7)
    # <<"i", "n", "v", "a", "l", "i", "d">>

\* filter_on_channels: tf.equal(tf.shape(image)[3], 3); [3] is 0-based.
filter_on_channels(features_dict) ==
  features_dict[IMAGE_FEATURE_NAME][3 + 1] = 3

\* fn(features_dict) for a filter function fn.
ApplyFilter(fn, features_dict) ==
  CASE fn = "filter_on_key" -> filter_on_key(features_dict)
    [] fn = "filter_on_channels" -> filter_on_channels(features_dict)
    [] fn = "always_true" -> TRUE
    [] fn = "always_false" -> FALSE

(***************************************************************************)
(* FilterBuilder.add_filter_fn, FilterBuilder.build and the filter_fn      *)
(* closure build returns.                                                  *)
(***************************************************************************)
\* The closures that hold the very list object self._filter_fns[after_phase]
\* see an append to it.
FiltersAfterAppend(after_phase, new_list) ==
  [i \in DOMAIN filters |->
     IF filters[i].after_phase = after_phase /\ filters[i].same_object
       THEN [filters[i] EXCEPT !.filter_fns = new_list]
       ELSE filters[i]]

\* The number of filter functions the builder holds, over all phases.
RECURSIVE CountOver(_)
CountOver(phases) ==
  IF phases = {} THEN 0
  ELSE LET phase == CHOOSE x \in phases : TRUE
       IN Len(_filter_fns[phase]) + CountOver(phases \ {phase})
FilterFnsCount == CountOver(Phase)

add_filter_fn(filter_fn, after_phase) ==
  LET new_list == Append(_filter_fns[after_phase], filter_fn)
  IN /\ FilterFnsCount < MaxFns
     /\ filter_call' = FilterCall("add_filter_fn", filter_fn, after_phase)
     /\ _filter_fns' = [_filter_fns EXCEPT ![after_phase] = new_list]
     /\ filters' = FiltersAfterAppend(after_phase, new_list)
     /\ UNCHANGED filtered
     /\ UNCHANGED <<_fns_list, _fn_idx, call, len_before, raised, built, runs,
                    parser_vars>>

\* A closure over the builder's own list.
Copy_same_list(list) == [filter_fns |-> list, same_object |-> TRUE]

\* copy.copy(self._filter_fns[after_phase]): a new list with the same items.
Copy(list) == [filter_fns |-> list, same_object |-> FALSE]

filter_build(after_phase) ==
  /\ Len(filters) < MaxBuilt
  /\ filter_call' = FilterCall("build", None, after_phase)
  /\ filters' = Append(filters,
       [after_phase |-> after_phase,
        filter_fns |-> Copy(_filter_fns[after_phase]).filter_fns,
        same_object |-> Copy(_filter_fns[after_phase]).same_object])
  /\ UNCHANGED <<_filter_fns, filtered>>
  /\ UNCHANGED <<_fns_list, _fn_idx, call, len_before, raised, built, runs,
                 parser_vars>>

\* A conjunction that forgets what it has.
logical_and_latest(x, y) == y

\* tf.logical_and(x, y)
logical_and(x, y) == x /\ y

\* keep after the first n turns of `for fn in filter_fns`, from
\* keep = tf.constant(True).
RECURSIVE Keep(_, _, _)
Keep(filter_fns, features_dict, n) ==
  IF n = 0 THEN TRUE
  ELSE logical_and(Keep(filter_fns, features_dict, n - 1),
                   ApplyFilter(filter_fns[n], features_dict))

\* The body of the closure on the list it holds.
filter_fn(filter_fns, features_dict) ==
  Keep(filter_fns, features_dict, Len(filter_fns))

\* A call filters[f](features_dict) of a closure that build returned.
filter_fn_call(f, features_dict) ==
  /\ f \in DOMAIN filters
  /\ filter_call' = FilterCall("filter_fn", None, None)
  /\ filtered' = [fn |-> f, features_dict |-> features_dict,
                  keep |-> filter_fn(filters[f].filter_fns, features_dict)]
  /\ UNCHANGED <<_filter_fns, filters>>
  /\ UNCHANGED <<_fns_list, _fn_idx, call, len_before, raised, built, runs,
                 parser_vars>>

(***************************************************************************)
(* The callers of the filter specification: the program of the             *)
(* FilterBuilder docstring and its three records, and constant filters     *)
(* added after PARSE and DECODE.  The program configures and builds in any *)
(* order, and then filters.                                                *)
(***************************************************************************)
Chars_invalid_key_0 ==
  <<"i", "n", "v", "a", "l", "i", "d", "_", "k", "e", "y", "_", "0">>
Chars_valid_key_1 == <<"v", "a", "l", "i", "d", "_", "k", "e", "y", "_", "1">>
Chars_valid_key_2 == <<"v", "a", "l", "i", "d", "_", "k", "e", "y", "_", "2">>

\* Shapes (frames, height, width, channels) of the images of the records.
rgb_representation_with_channel_3 == <<1, 1, 1, 3>>
rgb_representation_with_channel_1 == <<1, 1, 1, 1>>

input_ds ==
  <<[image |-> rgb_representation_with_channel_3, key |-> Chars_invalid_key_0],
    [image |-> rgb_representation_with_channel_3, key |-> Chars_valid_key_1],
    [image |-> rgb_representation_with_channel_1, key |-> Chars_valid_key_2]>>

FilterAdds ==
  {<<"filter_on_key", "READ">>, <<"filter_on_channels", "DECODE">>,
   <<"always_true", "DECODE">>, <<"always_false", "DECODE">>,
   <<"always_false", "PARSE">>}

BuiltPhases == {"READ", "PARSE", "DECODE"}

NextFilter ==
  \/ /\ filtered = NotFiltered
     /\ \E a \in FilterAdds : add_filter_fn(a[1], a[2])
  \/ /\ filtered = NotFiltered
     /\ \E after_phase \in BuiltPhases : filter_build(after_phase)
  \/ \E f \in DOMAIN filters, i \in DOMAIN input_ds :
       filter_fn_call(f, input_ds[i])

SpecFilter == Init /\ [][NextFilter]_vars

(***************************************************************************)
(* Properties of the builder.                                              *)
(***************************************************************************)
\* The names of the steps of a registry.
Names(list) == {list[i].fn_name : i \in DOMAIN list}

\* The name of the step an add_fn call registers, from the call's record
\* and the counter before the call.
AddedName(c, idx) == IF c.fn_name = None THEN SyntheticName(idx) ELSE c.fn_name

\* new is old with one step named name put at position pos.
SplicedAt(old, new, pos, name) ==
  /\ Len(new) = Len(old) + 1
  /\ new[pos].fn_name = name
  /\ \A i \in DOMAIN old : new[IF i < pos THEN i ELSE i + 1] = old[i]

\* C1: after a successful add_fn, get_summary() lists the steps that were
\* there in their old order, with the new step immediately before the step
\* named add_before_fn_name when that argument names a step, and last when
\* the argument was not given.
C1_OrderOfSummary ==
  [][(call'.op = "add_fn" /\ raised' = NoError) =>
       LET name == AddedName(call', _fn_idx)
           before == call'.add_before_fn_name
       IN /\ before = None =>
               SplicedAt(get_summary, get_summary', Len(get_summary) + 1, name)
          /\ before \in Names(get_summary) =>
               \E pos \in DOMAIN get_summary :
                  /\ get_summary[pos].fn_name = before
                  /\ SplicedAt(get_summary, get_summary', pos, name)]_vars

\* C4: add_fn with an fn_name that a step of the registry already has
\* raises, and the registry holds the same descriptors in the same order as
\* before the call, whatever add_before_fn_name was.
C4_DuplicateNameRejected ==
  [][(call'.op = "add_fn" /\ call'.fn_name # None
        /\ call'.fn_name \in Names(_fns_list)) =>
       (raised' # NoError /\ _fns_list' = _fns_list)]_vars

\* C4 witness: a named add_fn was refused as a duplicate by a registry of at
\* least two steps whose last step has another name.
C4_Witness ==
  /\ call.op = "add_fn" /\ call.fn_name # None /\ raised = NotUnique
  /\ Len(_fns_list) >= 2
  /\ _fns_list[Len(_fns_list)].fn_name # call.fn_name

\* C5: add_fn without fn_name never raises the not-unique error.
C5_SyntheticNameFresh ==
  [][(call'.op = "add_fn" /\ call'.fn_name = None) => raised' # NotUnique]_vars

\* C6: add_fn with an add_before_fn_name that is given and names no step of
\* the registry raises and leaves the registry as it was.
C6_UnknownAddBeforeRejected ==
  [][(call'.op = "add_fn" /\ call'.add_before_fn_name # None
        /\ call'.add_before_fn_name \notin Names(_fns_list)) =>
       (raised' # NoError /\ _fns_list' = _fns_list)]_vars

\* C7: replace_fn on the name of a step does not raise, keeps the length of
\* the registry, gives the step of that name the new function and leaves its
\* name, position, feature_name and stateful flag, and every other step, as
\* they were.
C7_ReplaceKeepsPlaceAndFlags ==
  [][(call'.op = "replace_fn" /\ call'.fn_name \in Names(_fns_list)) =>
       /\ raised' = NoError
       /\ Len(_fns_list') = Len(_fns_list)
       /\ \A i \in DOMAIN _fns_list :
            IF _fns_list[i].fn_name = call'.fn_name
              THEN /\ _fns_list'[i].fn_name = _fns_list[i].fn_name
                   /\ _fns_list'[i].feature_name = _fns_list[i].feature_name
                   /\ _fns_list'[i].stateful = _fns_list[i].stateful
                   /\ _fns_list'[i].fn = call'.fn
              ELSE _fns_list'[i] = _fns_list[i]]_vars

\* C7 witness: a field-scoped stateful step that is not the last one holds
\* the function a replace_fn call has just given it.
C7_Witness ==
  /\ call.op = "replace_fn" /\ raised = NoError /\ call.fn = "fetch"
  /\ \E i \in DOMAIN _fns_list :
       /\ i < Len(_fns_list)
       /\ _fns_list[i] = _FunctionDescription(call.fn_name, "fetch", "n", TRUE)

\* C8: replace_fn with a name no step has raises and leaves the registry as
\* it was.
C8_ReplaceUnknownRejected ==
  [][(call'.op = "replace_fn" /\ call'.fn_name \notin Names(_fns_list)) =>
       (raised' = FnNameMissing /\ _fns_list' = _fns_list)]_vars

\* C8 witness: replace_fn was refused by a registry that has steps.
C8_Witness ==
  /\ call.op = "replace_fn" /\ raised = FnNameMissing
  /\ _fns_list # <<>>
  /\ call.fn_name \notin Names(_fns_list)

\* The positions of the steps of a registry whose name is not name.
Kept(list, name) == {i \in DOMAIN list : list[i].fn_name # name}

\* The j-th smallest member of a set of positions.
Nth(positions, j) ==
  CHOOSE i \in positions : Cardinality({m \in positions : m < i}) = j - 1

\* C9: remove_fn never raises; the registry after remove_fn(n) is the one
\* before it without the step named n, the other steps in the same
\* relative order; it is the same registry when no step is named n, and so
\* a second remove_fn(n) changes nothing.
C9_RemoveIsFilter ==
  [][call'.op = "remove_fn" =>
       LET n == call'.fn_name
           kept == Kept(_fns_list, n)
       IN /\ raised' = NoError
          /\ Len(_fns_list') = Cardinality(kept)
          /\ \A j \in DOMAIN _fns_list' : _fns_list'[j] = _fns_list[Nth(kept, j)]
          /\ n \notin Names(_fns_list) => _fns_list' = _fns_list
          /\ (call.op = "remove_fn" /\ call.fn_name = n) =>
               _fns_list' = _fns_list]_vars

\* C9 witness: remove_fn has taken a step out from before other steps, and
\* the name it was given is no longer in the registry.
C9_Witness ==
  /\ call.op = "remove_fn" /\ raised = NoError
  /\ call.fn_name = "" /\ len_before = 3
  /\ Names(_fns_list) = {"A", "fn_0"}

\* C21: after any calls of add_fn (named or not, with or without
\* add_before_fn_name), remove_fn, replace_fn and reset, refused or not, no
\* two steps of the registry have the same name.
C21_NamesUnique ==
  \A i \in DOMAIN _fns_list : \A j \in DOMAIN _fns_list :
    _fns_list[i].fn_name = _fns_list[j].fn_name => i = j

\* C21 witness: a registry of three steps, one of them with a synthetic
\* name and one with a name of the synthetic form given by the caller, has
\* just refused an add_fn for its name.
C21_Witness ==
  /\ call.op = "add_fn" /\ raised = NotUnique
  /\ Len(_fns_list) = 3
  /\ "fn_0" \in Names(_fns_list) /\ "fn_1" \in Names(_fns_list)

\* C22: an add_fn call that raises leaves the builder as it was - the
\* registry and the counter of the synthetic names - so that every later
\* call does what it would have done without the refused call.
C22_FailedAddLeavesNoTrace ==
  [][(call'.op = "add_fn" /\ raised' # NoError) =>
       (_fns_list' = _fns_list /\ _fn_idx' = _fn_idx)]_vars

(***************************************************************************)
(* Properties of the closures.                                             *)
(***************************************************************************)
\* One step applied to a dictionary and a state, as the contract words it:
\* a step with a target field replaces the value of that key alone by
\* fn(old value), a step without replaces the dictionary by fn(dictionary).
\* acc.ok is FALSE once a step could not be applied.
RefStep(fd, acc) ==
  IF ~acc.ok THEN acc
  ELSE IF fd.feature_name \in FeatureKeys
    THEN IF fd.feature_name \notin DOMAIN acc.output
           THEN [acc EXCEPT !.ok = FALSE]
         ELSE LET res == CallFn(fd.fn, acc.output[fd.feature_name], acc.state)
              IN IF res.raises THEN [acc EXCEPT !.ok = FALSE]
                 ELSE [ok |-> TRUE,
                       output |-> [k \in DOMAIN acc.output |->
                                     IF k = fd.feature_name THEN res.ret
                                     ELSE acc.output[k]],
                       state |-> res.state]
    ELSE LET res == CallFn(fd.fn, acc.output, acc.state)
         IN IF res.raises THEN [acc EXCEPT !.ok = FALSE]
            ELSE [ok |-> TRUE, output |-> res.ret, state |-> res.state]

\* The first n steps of a registry applied one after another, in the order
\* of the registry, to a dictionary and an empty state.
RefRun(fds, features_dict, n) ==
  LET F[j \in 0 .. n] ==
        IF j = 0
          THEN [ok |-> TRUE, output |-> features_dict, state |-> EmptyDict]
          ELSE RefStep(fds[j], F[j - 1])
  IN F[n]

\* What a closure returns for a dictionary: whether it returns, and what.
Result(fds, features_dict) ==
  LET res == RefRun(fds, features_dict, Len(fds))
  IN [returns |-> res.ok, output |-> IF res.ok THEN res.output ELSE EmptyDict]

\* The step functions of a registry, in its order.
FnsOf(fds) == [i \in DOMAIN fds |-> fds[i].fn]

\* C2: the dictionary a closure returns is the result of applying the steps
\* build() captured, one after another in their order, to the dictionary
\* passed; at every turn of the loop the working dictionary is the result of
\* the steps so far.  So [double, add_one] on n = 3 gives 7 and
\* [add_one, double] gives 8, and a closure without steps returns a
\* dictionary equal to the one passed.
C2_CompiledSemantics ==
  \A c \in DOMAIN runs :
    LET r == runs[c]
        fds == built[r.fn].fns_list
    IN r.pc \in {"loop", "returned"} =>
         /\ r.i - 1 \in 0 .. Len(fds)
         /\ RefRun(fds, r.features_dict, r.i - 1).ok
         /\ r.output = RefRun(fds, r.features_dict, r.i - 1).output
         /\ r.pc = "returned" =>
              /\ r.i - 1 = Len(fds)
              /\ (FnsOf(fds) = <<"double", "add_one">>
                    /\ r.features_dict = [n |-> 3]) => r.output = [n |-> 7]
              /\ (FnsOf(fds) = <<"add_one", "double">>
                    /\ r.features_dict = [n |-> 3]) => r.output = [n |-> 8]
              /\ fds = <<>> => r.output = r.features_dict

\* C2 witness: a closure of [add_one, double] has returned n = 8 for n = 3.
C2_Witness ==
  \E c \in DOMAIN runs :
    /\ runs[c].pc = "returned"
    /\ FnsOf(built[runs[c].fn].fns_list) = <<"add_one", "double">>
    /\ runs[c].features_dict = [n |-> 3]
    /\ runs[c].output = [n |-> 8]

\* C3: no call of add_fn, remove_fn, replace_fn or reset (nor a later
\* build) changes what a closure built earlier returns, for any dictionary:
\* the closure holds the descriptors it held, or at least gives the results
\* it gave.
C3_Snapshot ==
  [][\A f \in DOMAIN built :
       /\ f \in DOMAIN built'
       /\ \/ built'[f].fns_list = built[f].fns_list
          \/ \A d \in Inputs :
               Result(built'[f].fns_list, d) = Result(built[f].fns_list, d)]_vars

\* C3 witness: the builder has been changed since a closure was built, and
\* its registry now gives another result than the closure does.
C3_Witness ==
  /\ call.op \in {"add_fn", "remove_fn", "replace_fn", "reset"}
  /\ raised = NoError
  /\ \E f \in DOMAIN built : \E d \in Inputs :
       Result(built[f].fns_list, d) # Result(_fns_list, d)

\* C10: a call starts with an empty state; at every turn of the loop the
\* state is what the stateful steps of this call so far have written into
\* an empty one, so a later step reads back what an earlier step of the
\* same call wrote, and the state has the key 'k' only if a step of this
\* very call wrote it.
C10_StateScoping ==
  \A c \in DOMAIN runs :
    LET r == runs[c]
        fds == built[r.fn].fns_list
    IN r.pc \in {"loop", "returned"} =>
         /\ r.i = 1 => r.state = EmptyDict
         /\ r.state = RefRun(fds, r.features_dict, r.i - 1).state
         /\ "k" \in DOMAIN r.state <=>
              \E j \in 1 .. r.i - 1 : fds[j].fn \in {"stash", "mark"}
         /\ (r.i > 1 /\ fds[r.i - 1].fn = "publish") =>
              r.output["out"] = r.state["k"]

\* C10 witness: in one call mark has written state['k'] = 5 and publish
\* has read it and put it under 'out'.
C10_Witness ==
  \E c \in DOMAIN runs :
    /\ runs[c].pc = "returned"
    /\ FnsOf(built[runs[c].fn].fns_list) = <<"mark", "publish">>
    /\ runs[c].state = [k |-> 5]
    /\ runs[c].output = [out |-> 5]

\* C11: from its entry to its return or its raise, a call of a closure
\* leaves the dictionary the caller passed with the keys and the values it
\* had, whatever its steps overwrite, add or delete in the working copy.
C11_InputUntouched ==
  [][\A c \in DOMAIN runs :
       runs[c].pc = "loop" =>
         runs'[c].features_dict = runs[c].features_dict]_vars

\* C11 witness: a call has returned whose steps overwrote 'n' (double) and
\* then deleted 'n' and overwrote 'out' (rename); the caller's dictionary
\* still has both keys with the values it was passed with.
C11_Witness ==
  \E c \in DOMAIN runs :
    /\ runs[c].pc = "returned"
    /\ FnsOf(built[runs[c].fn].fns_list) = <<"double", "rename">>
    /\ runs[c].features_dict = [n |-> 3, out |-> 1]
    /\ runs[c].output = [out |-> 6]


\* C18: whatever calls of the closure are under way in the other slots and
\* however their turns interleave, a call is at every turn where it is when
\* it runs alone - its working dictionary and its state are those of its
\* own steps so far on its own dictionary and an empty state - and it
\* returns, or raises, as it does alone.
C18_Interleaving ==
  \A c \in DOMAIN runs :
    LET r == runs[c]
        fds == built[r.fn].fns_list
        alone == RefRun(fds, r.features_dict, r.i - 1)
    IN /\ r.pc \in {"loop", "returned"} =>
            /\ alone.ok
            /\ r.output = alone.output
            /\ r.state = alone.state
       /\ r.pc = "returned" =>
            /\ Result(fds, r.features_dict).returns
            /\ r.output = Result(fds, r.features_dict).output
       /\ r.pc = "raised" => ~Result(fds, r.features_dict).returns

\* C18 witness: two calls of the closure [stash, double, publish] are under
\* way on different dictionaries; one has returned, the other has made its
\* first turn and holds its own value in its state.
C18_Witness ==
  /\ Len(built) = 1
  /\ FnsOf(built[1].fns_list) = <<"stash", "double", "publish">>
  /\ runs[1].pc = "returned" /\ runs[1].features_dict = [n |-> 1]
  /\ runs[1].output = [n |-> 2, out |-> 1]
  /\ runs[2].pc = "loop" /\ runs[2].features_dict = [n |-> 3]
  /\ runs[2].i = 2 /\ runs[2].state = [k |-> 3]

\* C19, as claimed: a call is ended by an error only when a step function
\* has raised it.
C19_NoCoreError ==
  \A c \in DOMAIN runs : runs[c].pc = "raised" => runs[c].error = ErrorInFn

\* C19, amended: a turn of the loop for a step with a target field that the
\* working dictionary lacks ends the call with the KeyError of the lookup;
\* any other turn ends the call exactly when the step function raises, with
\* that error, and goes on to the next step when it returns; after the
\* last turn the call returns.
C19_FailsOnStepOrMissingKey ==
  [][\A c \in DOMAIN runs :
       (runs[c].pc = "loop" /\ runs'[c] # runs[c]) =>
         LET r == runs[c]
             fds == built[r.fn].fns_list
         IN IF r.i > Len(fds) THEN runs'[c].pc = "returned"
            ELSE LET fd == fds[r.i]
                     scoped == fd.feature_name \in FeatureKeys
                 IN IF scoped /\ fd.feature_name \notin DOMAIN r.output
                      THEN /\ runs'[c].pc = "raised"
                           /\ runs'[c].error = KeyErrorInLoop
                    ELSE IF CallFn(fd.fn,
                                   IF scoped THEN r.output[fd.feature_name]
                                   ELSE r.output,
                                   r.state).raises
                      THEN /\ runs'[c].pc = "raised"
                           /\ runs'[c].error = ErrorInFn
                    ELSE /\ runs'[c].pc = "loop"
                         /\ runs'[c].i = r.i + 1]_vars

\* C19 witness: rename has deleted 'n' from the working dictionary of a
\* call that was given 'n', and the next step, double on 'n', has ended the
\* call with the KeyError.
C19_Witness ==
  \E c \in DOMAIN runs :
    /\ runs[c].pc = "raised" /\ runs[c].error = KeyErrorInLoop
    /\ FnsOf(built[runs[c].fn].fns_list) = <<"rename", "double">>
    /\ runs[c].features_dict = [n |-> 3]
    /\ runs[c].output = [out |-> 3]
    /\ runs[c].i = 2

(***************************************************************************)
(* Properties of the parser builders.                                      *)
(***************************************************************************)
\* The output names a schema has registered, for all its features.
RegisteredNames(name_dict) ==
  UNION {{name_dict[k][i] : i \in DOMAIN name_dict[k]} : k \in DOMAIN name_dict}

\* The output name a parse_feature call asks for: its output_name, or its
\* feature_name when it gave none (None, or the empty string).
ResolvedName(c) ==
  IF c.output_name \in {None, ""} THEN c.feature_name ELSE c.output_name

\* C12: a parse_feature call, of either builder, whose resolved output name
\* is already an output name of some feature raises the not-unique error
\* and leaves the types and the name lists as they were.
C12_OutputNameUnique ==
  [][(parse_call'.op = "parse_feature"
        /\ ResolvedName(parse_call') \in RegisteredNames(_name_dict)) =>
       /\ parse_raised' = OutputNameNotUnique
       /\ _features' = _features
       /\ _name_dict' = _name_dict]_vars

\* C12 witness: a call that gave no output_name was refused because its
\* feature_name is the second output name of another feature.
C12_Witness ==
  /\ parse_call.op = "parse_feature"
  /\ parse_call.output_name = None
  /\ parse_raised = OutputNameNotUnique
  /\ \E k \in DOMAIN _name_dict :
       /\ k # FeatureKey(parse_call.feature_name, parse_call.is_context)
       /\ Len(_name_dict[k]) >= 2
       /\ _name_dict[k][2] = parse_call.feature_name

\* C13: a parse_feature call for a feature that is registered with another
\* type raises, and leaves the types and the name lists as they were: the
\* type is the one given first and the call's output name is not added.
C13_TypeConsistent ==
  [][(/\ parse_call'.op = "parse_feature"
      /\ FeatureKey(parse_call'.feature_name, parse_call'.is_context)
           \in DOMAIN _features
      /\ _features[FeatureKey(parse_call'.feature_name, parse_call'.is_context)]
           # parse_call'.feature_type) =>
       /\ parse_raised' # NoError
       /\ _features' = _features
       /\ _name_dict' = _name_dict]_vars

\* C13 witness: a call with a fresh output name was refused for its type.
C13_Witness ==
  /\ parse_call.op = "parse_feature"
  /\ parse_raised = DifferentFeatureType
  /\ ResolvedName(parse_call) \notin RegisteredNames(_name_dict)
  /\ _features[FeatureKey(parse_call.feature_name, parse_call.is_context)]
       # parse_call.feature_type


\* The value of a feature in a record: by name in an Example; by name in
\* the context or in the feature lists of a SequenceExample.
ValueIn(raw_data, feature_key) ==
  IF parser_class = SequenceExampleParserBuilder
    THEN IF feature_key[2] THEN raw_data.context[feature_key[1]]
         ELSE raw_data.feature_lists[feature_key[1]]
    ELSE raw_data.features[feature_key]

\* result is what a schema promises: its keys are the registered output
\* names, each bound to the parsed value, with the registered type, of the
\* feature it was registered for.
ParsedAsRegistered(result, features, name_dict) ==
  /\ DOMAIN result.output = RegisteredNames(name_dict)
  /\ \A k \in DOMAIN name_dict : \A i \in DOMAIN name_dict[k] :
       result.output[name_dict[k][i]] =
         [feature_type |-> features[k], value |-> ValueIn(result.raw_data, k)]

\* C14: registering a registered feature again with its type and a fresh
\* output name succeeds, adds the name to the feature's list and no entry
\* to the types; a parse function returns exactly the registered output
\* names, each with the parsed value of its own feature - in the
\* SequenceExample builder the context feature and the sequence feature of
\* one name are two features, each with its own type and value.
C14_FanOut ==
  [][/\ (/\ parse_call'.op = "parse_feature"
         /\ FeatureKey(parse_call'.feature_name, parse_call'.is_context)
              \in DOMAIN _features
         /\ _features[FeatureKey(parse_call'.feature_name,
                                 parse_call'.is_context)]
              = parse_call'.feature_type
         /\ ResolvedName(parse_call') \notin RegisteredNames(_name_dict)) =>
          LET k == FeatureKey(parse_call'.feature_name, parse_call'.is_context)
          IN /\ parse_raised' = NoError
             /\ _features' = _features
             /\ DOMAIN _name_dict' = DOMAIN _name_dict
             /\ _name_dict'[k] = Append(_name_dict[k], ResolvedName(parse_call'))
             /\ \A j \in DOMAIN _name_dict \ {k} : _name_dict'[j] = _name_dict[j]
     /\ parse_call'.op = "_parse_fn" =>
          ParsedAsRegistered(parse_result', _features', _name_dict')]_vars

\* C14 witness: the context feature 'b' has two output names, the sequence
\* feature 'b' has another type and the output name 'a', and a parse
\* function has returned the three names, 'a' with the sequence value.
C14_Witness ==
  /\ parser_class = SequenceExampleParserBuilder
  /\ parse_call.op = "_parse_fn"
  /\ <<"b", TRUE>> \in DOMAIN _name_dict /\ <<"b", FALSE>> \in DOMAIN _name_dict
  /\ _name_dict[<<"b", TRUE>>] = <<"b", "x">>
  /\ _name_dict[<<"b", FALSE>>] = <<"a">>
  /\ _features[<<"b", TRUE>>] # _features[<<"b", FALSE>>]
  /\ DOMAIN parse_result.output = {"a", "b", "x"}
  /\ parse_result.output["a"].value = 4
  /\ parse_result.output["x"].value = 2

\* C15: no later call of the builder changes what a parse function that
\* build has returned gives for a record.
C15_ParserSnapshot ==
  [][\A f \in DOMAIN parse_fns : \A raw_data \in RawData :
       _parse_fn(raw_data)' = _parse_fn(raw_data)]_vars


\* A schema is well formed: the types and the name lists are for the same
\* features, no list is empty, and no output name is there twice, in one
\* list or in two.
SchemaWellFormed(features, name_dict) ==
  /\ DOMAIN features = DOMAIN name_dict
  /\ \A k \in DOMAIN name_dict : name_dict[k] # <<>>
  /\ \A k \in DOMAIN name_dict : \A l \in DOMAIN name_dict :
       \A i \in DOMAIN name_dict[k] : \A j \in DOMAIN name_dict[l] :
         name_dict[k][i] = name_dict[l][j] => (k = l /\ i = j)

\* C23: after any parse_feature calls, refused or not, on a builder of
\* either class the schema is well formed, and the type of a feature is
\* the one of the call that registered it first: that call stores its
\* feature_type and no later call changes it.
C23_SchemaInvariant ==
  [][/\ SchemaWellFormed(_features, _name_dict)
     /\ SchemaWellFormed(_features', _name_dict')
     /\ \A k \in DOMAIN _features :
          k \in DOMAIN _features' /\ _features'[k] = _features[k]
     /\ \A k \in DOMAIN _features' \ DOMAIN _features :
          /\ parse_call'.op = "parse_feature"
          /\ k = FeatureKey(parse_call'.feature_name, parse_call'.is_context)
          /\ _features'[k] = parse_call'.feature_type]_vars

\* C23 witness: a SequenceExample builder with the context feature and the
\* sequence feature of one name, of two types, and a feature with two
\* output names has just refused a call.
C23_Witness ==
  /\ parser_class = SequenceExampleParserBuilder
  /\ parse_call.op = "parse_feature" /\ parse_raised # NoError
  /\ \E n \in FeatureNames :
       /\ <<n, TRUE>> \in DOMAIN _features /\ <<n, FALSE>> \in DOMAIN _features
       /\ _features[<<n, TRUE>>] # _features[<<n, FALSE>>]
  /\ \E k \in DOMAIN _name_dict : Len(_name_dict[k]) >= 2

(***************************************************************************)
(* Properties of the FilterBuilder.                                        *)
(***************************************************************************)
\* Every filter function of a list holds of a dictionary.
AllHold(filter_fns, features_dict) ==
  \A i \in DOMAIN filter_fns : ApplyFilter(filter_fns[i], features_dict)

\* A list with its i-th and (i+1)-th items exchanged.
Exchanged(list, i) ==
  [j \in DOMAIN list |->
     IF j = i THEN list[i + 1] ELSE IF j = i + 1 THEN list[i] ELSE list[j]]

\* C16: a closure that build(P) returned gives TRUE for a dictionary
\* exactly when every filter function it was built with gives TRUE: always
\* TRUE when it was built with none, FALSE when always_false is among them;
\* and a closure over the same functions with two neighbours exchanged -
\* hence in any other order - gives the same.  The last call of a closure
\* returned just that.
C16_FilterConjunction ==
  /\ \A f \in DOMAIN filters : \A i \in DOMAIN input_ds :
       LET filter_fns == filters[f].filter_fns
           keep == filter_fn(filter_fns, input_ds[i])
       IN /\ keep <=> AllHold(filter_fns, input_ds[i])
          /\ filter_fns = <<>> => keep
          /\ (\E j \in DOMAIN filter_fns : filter_fns[j] = "always_false")
               => ~keep
          /\ \A j \in 1 .. Len(filter_fns) - 1 :
               filter_fn(Exchanged(filter_fns, j), input_ds[i]) = keep
  /\ filtered.fn # 0 =>
       (filtered.keep <=>
          AllHold(filters[filtered.fn].filter_fns, filtered.features_dict))

\* C16 witness: a closure built with always_false and then always_true was
\* called and returned FALSE.
C16_Witness ==
  /\ filtered.fn # 0
  /\ filters[filtered.fn].filter_fns = <<"always_false", "always_true">>
  /\ ~filtered.keep

\* C17: add_filter_fn(fn, P) appends fn to the list of P and leaves the
\* lists of the other phases as they were; build(P) leaves every list as it
\* was and returns a closure over the functions of P; and no call changes
\* what a closure built earlier returns for a dictionary: the closure holds
\* the functions it held, or at least gives the results it gave.
C17_PhaseIndependence ==
  [][/\ filter_call'.op = "add_filter_fn" =>
          /\ _filter_fns'[filter_call'.after_phase] =
               Append(_filter_fns[filter_call'.after_phase],
                      filter_call'.filter_fn)
          /\ \A phase \in Phase \ {filter_call'.after_phase} :
               _filter_fns'[phase] = _filter_fns[phase]
     /\ filter_call'.op = "build" =>
          /\ _filter_fns' = _filter_fns
          /\ Len(filters') = Len(filters) + 1
          /\ \A i \in DOMAIN input_ds :
               filter_fn(filters'[Len(filters')].filter_fns, input_ds[i])
                 <=> AllHold(_filter_fns[filter_call'.after_phase], input_ds[i])
     /\ \A f \in DOMAIN filters :
          \/ filters'[f].filter_fns = filters[f].filter_fns
          \/ \A i \in DOMAIN input_ds :
               filter_fn(filters'[f].filter_fns, input_ds[i])
                 = filter_fn(filters[f].filter_fns, input_ds[i])]_vars

\* C17 witness: a function was added after the phase of a closure built
\* earlier, and the builder's list for that phase now rejects a record that
\* the closure keeps.
C17_Witness ==
  /\ filter_call.op = "add_filter_fn"
  /\ \E f \in DOMAIN filters : \E i \in DOMAIN input_ds :
       /\ filters[f].after_phase = filter_call.after_phase
       /\ filter_fn(filters[f].filter_fns, input_ds[i])
       /\ ~filter_fn(_filter_fns[filter_call.after_phase], input_ds[i])

\* The FilterBuilder of the docstring: filter_on_key after READ,
\* filter_on_channels after DECODE.
DocFilterFns ==
  [phase \in Phase |->
     IF phase = "READ" THEN <<"filter_on_key">>
     ELSE IF phase = "DECODE" THEN <<"filter_on_channels">>
     ELSE <<>>]

\* ds.filter(f): the records of ds that the closure f keeps.
DsFilter(ds, f) ==
  LET keep(features_dict) == filter_fn(filters[f].filter_fns, features_dict)
  IN SelectSeq(ds, keep)

\* C20: with the docstring's builder, filtering the three records with the
\* closure of build(Phase.PARSE) rejects 'invalid_key_0', and filtering the
\* rest with the closure of build(Phase.DECODE) leaves 'valid_key_1' alone.
C20_DocumentedUsage ==
  \A post_parse \in DOMAIN filters, post_decode \in DOMAIN filters :
    (/\ _filter_fns = DocFilterFns
     /\ filters[post_parse].after_phase = "PARSE"
     /\ filters[post_parse].filter_fns = _filter_fns["PARSE"]
     /\ filters[post_decode].after_phase = "DECODE"
     /\ filters[post_decode].filter_fns = _filter_fns["DECODE"]) =>
      /\ \A i \in DOMAIN DsFilter(input_ds, post_parse) :
           DsFilter(input_ds, post_parse)[i].key # Chars_invalid_key_0
      /\ DsFilter(DsFilter(input_ds, post_parse), post_decode) = <<input_ds[2]>>


====
